---- MODULE Spec2Model ----
(***************************************************************************)
(* tiny_cnn::network<LossFunction, Optimizer> (src/tiny_cnn/network.h).    *)
(*                                                                         *)
(* The network drives an ordered chain of layers.  Numeric vectors are     *)
(* abstracted: an input is known by its dataset index and its size, a      *)
(* target by its dataset index (and, for the vector overload, by its       *)
(* label or size), a gradient contribution by the pair <<input index,      *)
(* target index>> it was computed from, and the parameter vectors by the   *)
(* sequence of merged updates applied to them since their initialisation.  *)
(***************************************************************************)
EXTENDS Integers, Sequences, FiniteSets, Bags, TLC

\* ---------------------------------------------------------------- bounds
MaxInSize == 4      \* largest dataset of the short training runs
MaxBatch == 4       \* largest batch_size
MaxThreads == 3     \* largest n_threads
MaxEpoch == 2       \* largest epoch count
InDim == 2          \* in_dim() of the modelled chain
OutDim == 2         \* out_dim() of the modelled chain
LongIn == 151       \* dataset size of the long training run
LongBatch == 50     \* batch_size of the long training run
MaxVecLen == 2      \* longest in / t of the vector overload of train
MaxEval == 3        \* longest in of test and get_loss
LongHessian == 501  \* dataset size of the run whose pre-pass meets the cap
MaxDepth == 3       \* longest chain handed to gradient_check
MaxData == 2        \* largest data_size of gradient_check
MaxValue == 2       \* largest output / target value of the pair overload of bprop
MaxSpin == 3        \* mini-batches followed when the batch loop does not advance
MaxStages == 2      \* longest chain compared by has_same_weights

\* program constants
CheckPeriod == 100      \* network.h:196  i % 100 == 0
HessianCap == 500       \* network.h:465  size_initialize_hessian = 500
CNN_TASK_SIZE == 8      \* default task count (tiny_cnn/config.h)
RandomChecks == 10      \* network.h:332  for (int i = 0; i < 10; i++)
DeltaExponent == 10     \* network.h:555  delta = 1e-10, written as the n of 10^-n

Min(a, b) == IF a < b THEN a ELSE b

Slots == 0 .. (MaxThreads - 1)

VARIABLES
    op,         \* the public operation being executed
    pc,         \* position of the calling thread
    arg,        \* arguments of the call
    ins,        \* ins[j]: size of the j-th input vector
    tgt,        \* tgt[j]: the j-th target
    iter,       \* train: epoch counter
    i,          \* train: mini-batch offset / evaluation loop counter
    task,       \* for_i: per-index unit of work
    tsingle,    \* train_once: target held by the single-sample path
    weights,    \* live parameter vectors of the chain
    grad,       \* grad[s]: gradient accumulator of thread slot s
    opt,        \* optimizer state
    exploded,   \* layers_.is_exploded()
    out,        \* out[s]: output buffer of thread slot s (input index forwarded)
    parallelize,\* layers_.set_parallelize flag
    hessian,    \* accumulated curvature statistics
    res,        \* test: the result being built; test(in): outputs; get_loss: terms
    ret,        \* value returned to the caller
    err,        \* error raised to the caller
    hist,       \* observation record used by the properties
    pre,        \* the network as it was when the operation was called
    gc,         \* gradient_check: position in the chain and locals of calc_delta
    param       \* gradient_check: offset of each parameter from the value it had
                \* when the call began, in units of the perturbation step

netVars == <<weights, grad, opt, exploded, out, parallelize, hessian>>
vars == <<gc, param, pre, res, op, pc, arg, ins, tgt, iter, i, task, tsingle, weights, grad, opt,
          exploded, out, parallelize, hessian, ret, err, hist>>

\* ------------------------------------------------------- pure helpers
NumThreads_AllTasks(in_size, num_tasks) == num_tasks

\* std::min(int(in_size), num_tasks)
NumThreads(in_size, num_tasks) == Min(in_size, num_tasks)

DataPerThread_Floor(in_size, num_threads) == in_size \div num_threads

\* (in_size + num_threads - 1) / num_threads
DataPerThread(in_size, num_threads) == (in_size + num_threads - 1) \div num_threads

\* in_offset + i * data_per_thread
StartIndex(in_offset, k, data_per_thread) == in_offset + k * data_per_thread

\* std::min(last_index, start_index + data_per_thread)
EndIndex(last_index, start_index, data_per_thread) ==
    Min(last_index, start_index + data_per_thread)

TaskSlot_Default(k) == 0

\* the thread slot the lambda of train_onebatch passes on: its own index i
TaskSlot(k) == k

\* train_once, in_size == 1: fprop(input_data_function(0))
OnceInputIndex(in_offset) == 0

\* train_once, in_size == 1: output_data_function(in_offset, 0)
OnceTargetIndex(in_offset) == in_offset

Mismatch_TooShortOnly(sz) == sz < InDim

\* fprop: in.size() != size_t(in_dim())
Mismatch(sz) == sz # InDim

CheckDue_EveryBatch(offset) == TRUE

\* train: i % 100 == 0, the left operand of the explosion check
CheckDue(offset) == offset % CheckPeriod = 0

ExplosionDetected_OffByOne(offset, isExploded) ==
    offset % CheckPeriod = 1 /\ isExploded

\* train: i % 100 == 0 && layers_.is_exploded()
ExplosionDetected(offset, isExploded) == CheckDue(offset) /\ isExploded

\* layers_.set_parallelize(batch_size < CNN_TASK_SIZE)
ParallelizeFlag(batch_size) == batch_size < CNN_TASK_SIZE

HessianSize_Uncapped(in_size) == in_size

\* calc_hessian: std::min(in_size, size_initialize_hessian)
HessianSize(in_size) == Min(in_size, HessianCap)

\* layers::update_weights: the gradient merged from slots 0 .. n-1, in slot order
RECURSIVE Merge(_, _)
Merge(g, n) == IF n = 0 THEN << >> ELSE Merge(g, n - 1) \o g[n - 1]

\* layers::update_weights(&optimizer_, n, div): one merged update is applied
\* to the live parameters and the merged accumulators are cleared
Updated(w, g, n, div) ==
    [w EXCEPT !.upd = Append(@, [g |-> Merge(g, n), n |-> n, div |-> div])]
Cleared(g, n) == [s \in DOMAIN g |-> IF s < n THEN << >> ELSE g[s]]

\* layers::init_weight
Initialised(w) == [gen |-> w.gen + 1, upd |-> << >>]

NoTask == << >>
NoResult == [num_success |-> 0, num_total |-> 0, confusion_matrix |-> EmptyBag]
NoLoss == [at |-> 0, n |-> 0]
NoCheck == [cur |-> 0, part |-> "-", k |-> 0, idx |-> -1, prev_w |-> 0,
            f_p |-> NoLoss, f_m |-> NoLoss, dw |-> 0, step |-> -1, by |-> -1]
NoBatch == [iter |-> -1, off |-> -1, size |-> 0, ev |-> {}, n |-> 0, div |-> 0, upd |-> 0]

Event(k, j, o, slot, w) == [k |-> k, j |-> j, o |-> o, slot |-> slot, w |-> w]

\* observation of one head()->forward_propagation(in, idx) call
SawForward(h, j, idx) ==
    [h EXCEPT !.nFwd = @ + 1, !.lastFwd = <<j, idx>>,
              !.fwdBad = @ \/ ins[j] # InDim]
\* observation of one fprop call that ended in data_mismatch
SawMismatch(h) == [h EXCEPT !.nFprop = @ + 1, !.nMismatch = @ + 1]
\* observation of one layers_.is_exploded() call, made after the mini-batch at offset b
SawEvaluation(h, b) == [h EXCEPT !.evalAt = Append(@, b)]
SawEvent(h, e) == [h EXCEPT !.last.ev = @ \cup {e}]

\* ------------------------------------------------------------- train
TrainInitWeight_Always ==
    /\ pc = "train"
    /\ weights' = Initialised(weights) /\ exploded' = FALSE
    /\ pc' = "set_parallelize"
    /\ UNCHANGED <<gc, param, pre, res, op, arg, ins, tgt, iter, i, task, tsingle, grad, opt, out,
                   parallelize, hessian, ret, err, hist>>

\* network::train, set-up: if (reset_weights) init_weight();
TrainInitWeight ==
    /\ pc = "train"
    /\ IF arg.reset_weights
          THEN weights' = Initialised(weights) /\ exploded' = FALSE
          ELSE UNCHANGED <<weights, exploded>>
    /\ pc' = "set_parallelize"
    /\ UNCHANGED <<gc, param, pre, res, op, arg, ins, tgt, iter, i, task, tsingle, grad, opt, out,
                   parallelize, hessian, ret, err, hist>>

\* layers_.set_parallelize(batch_size < CNN_TASK_SIZE);
TrainSetParallelize ==
    /\ pc = "set_parallelize"
    /\ parallelize' = ParallelizeFlag(arg.batch_size)
    /\ pc' = "optimizer_reset"
    /\ UNCHANGED <<gc, param, pre, res, op, arg, ins, tgt, iter, i, task, tsingle, weights, grad, opt,
                   exploded, out, hessian, ret, err, hist>>

\* optimizer_.reset();
TrainOptimizerReset ==
    /\ pc = "optimizer_reset"
    /\ opt' = [resets |-> opt.resets + 1, steps |-> 0]
    /\ iter' = 0
    /\ pc' = "epoch"
    /\ UNCHANGED <<gc, param, pre, res, op, arg, ins, tgt, i, task, tsingle, weights, grad, exploded,
                   out, parallelize, hessian, ret, err, hist>>

\* for (int iter = 0; iter < epoch; iter++) { if (requires_hessian()) ...
EpochHead ==
    /\ pc = "epoch"
    /\ IF iter < arg.epoch
          THEN /\ pc' = IF arg.requires_hessian THEN "calc_hessian" ELSE "batch"
               /\ i' = 0
               /\ hist' = [hist EXCEPT !.trained = EmptyBag, !.evalAt = << >>]
               /\ UNCHANGED ret
          ELSE /\ pc' = "done"
               /\ ret' = "true"
               /\ UNCHANGED <<i, hist>>
    /\ UNCHANGED <<gc, param, pre, res, op, arg, ins, tgt, iter, task, tsingle, netVars, err>>

\* calc_hessian: for (i < size) bprop_2nd(fprop(input_data_function(i)));
CalcHessianStep ==
    /\ pc = "calc_hessian"
    /\ i < HessianSize(arg.in_size)
    /\ IF Mismatch(ins[i])
          THEN /\ pc' = "error"
               /\ err' = "dimension mismatch"
               /\ hist' = SawMismatch(hist)
               /\ UNCHANGED <<i, out, hessian>>
          ELSE /\ out' = [out EXCEPT ![0] = i]
               /\ hessian' = [hessian EXCEPT !.acc = @ + 1]
               /\ hist' = [SawForward(hist, i, 0) EXCEPT !.nFprop = @ + 1]
               /\ i' = i + 1
               /\ UNCHANGED <<pc, err>>
    /\ UNCHANGED <<gc, param, pre, res, op, arg, ins, tgt, iter, task, tsingle, weights, grad, opt,
                   exploded, parallelize, ret>>

\* calc_hessian: layers_.divide_hessian(size);
CalcHessianDivide ==
    /\ pc = "calc_hessian"
    /\ i >= HessianSize(arg.in_size)
    /\ hessian' = [hessian EXCEPT !.ndiv = @ + 1, !.by = HessianSize(arg.in_size)]
    /\ i' = 0
    /\ pc' = "batch"
    /\ UNCHANGED <<gc, param, pre, res, op, arg, ins, tgt, iter, task, tsingle, weights, grad, opt,
                   exploded, out, parallelize, ret, err, hist>>

BatchSize == Min(arg.batch_size, arg.in_size - i)

NewBatch(h, size) ==
    [h EXCEPT !.last = [NoBatch EXCEPT !.iter = iter, !.off = i, !.size = size]]

\* train_once, in_size == 1: const auto &t = output_data_function(in_offset, 0);
TrainOnceTarget ==
    /\ pc = "batch"
    /\ i < arg.in_size
    /\ BatchSize = 1
    /\ tsingle' = OnceTargetIndex(i)
    /\ hist' = SawEvent(NewBatch(hist, 1), Event("t", OnceTargetIndex(i), -1, 0, -1))
    /\ pc' = "once_fprop"
    /\ UNCHANGED <<gc, param, pre, res, op, arg, ins, tgt, iter, i, task, netVars, ret, err>>

\* train_once, in_size == 1: fprop(input_data_function(0))
TrainOnceFprop ==
    /\ pc = "once_fprop"
    /\ LET j == OnceInputIndex(i) IN
       IF Mismatch(ins[j])
          THEN /\ pc' = "error"
               /\ err' = "dimension mismatch"
               /\ hist' = SawMismatch(hist)
               /\ UNCHANGED out
          ELSE /\ out' = [out EXCEPT ![0] = j]
               /\ hist' = [SawEvent(SawForward(hist, j, 0), Event("f", j, -1, 0, -1))
                             EXCEPT !.nFprop = @ + 1]
               /\ pc' = "once_bprop"
               /\ UNCHANGED err
    /\ UNCHANGED <<gc, param, pre, res, op, arg, ins, tgt, iter, i, task, tsingle, weights, grad, opt,
                   exploded, parallelize, hessian, ret>>

\* train_once, in_size == 1: bprop(<output>, t);
TrainOnceBprop ==
    /\ pc = "once_bprop"
    /\ grad' = [grad EXCEPT ![0] = Append(@, <<out[0], tsingle>>)]
    /\ hist' = [SawEvent(hist, Event("b", tsingle, out[0], 0, -1))
                  EXCEPT !.trained = @ (+) SetToBag({<<out[0], tsingle>>})]
    /\ pc' = "once_update"
    /\ UNCHANGED <<gc, param, pre, res, op, arg, ins, tgt, iter, i, task, tsingle, weights, opt,
                   exploded, out, parallelize, hessian, ret, err>>

\* what one layers_.update_weights(&optimizer_, n, div) call does to the state
UpdateWeights(n, div) ==
    /\ weights' = Updated(weights, grad, n, div)
    /\ grad' = Cleared(grad, n)
    /\ opt' = [opt EXCEPT !.steps = @ + 1]
    /\ \E e \in (IF exploded THEN {TRUE} ELSE BOOLEAN) :
          /\ exploded' = e
          /\ hist' = [hist EXCEPT
                !.last.n = n, !.last.div = div, !.last.upd = @ + 1,
                !.updRace = @ \/ \E w \in DOMAIN task : task[w].st = "run",
                !.postExpl = IF e THEN Append(@, <<hist.last.iter, hist.last.off>>) ELSE @]

\* train_once, in_size == 1: layers_.update_weights(&optimizer_, 1, 1);
TrainOnceUpdate ==
    /\ pc = "once_update"
    /\ UpdateWeights(1, 1)
    /\ pc' = "on_batch"
    /\ UNCHANGED <<gc, param, pre, res, op, arg, ins, tgt, iter, i, task, tsingle, out, parallelize,
                   hessian, ret, err>>

\* train_onebatch: num_threads, data_per_thread, last_index and the for_i launch
TrainOnebatchLaunch ==
    /\ pc = "batch"
    /\ i < arg.in_size
    /\ BatchSize # 1
    /\ NumThreads(BatchSize, arg.n_threads) # 0
    /\ LET num_threads == NumThreads(BatchSize, arg.n_threads)
           data_per_thread == DataPerThread(BatchSize, num_threads)
           last_index == i + BatchSize
       IN  task' = [w \in 0 .. (num_threads - 1) |->
                LET start_index == StartIndex(i, w, data_per_thread)
                    end_index == EndIndex(last_index, start_index, data_per_thread)
                IN  [st |-> IF start_index < end_index THEN "run" ELSE "done",
                     j |-> start_index, end |-> end_index, first |-> TRUE,
                     ph |-> "t", t |-> -1]]
    /\ hist' = NewBatch(hist, BatchSize)
    /\ pc' = "for_i"
    /\ UNCHANGED <<gc, param, pre, res, op, arg, ins, tgt, iter, i, tsingle, netVars, ret, err>>

\* train_onebatch with num_threads == 0, i.e. in_size == 0 or num_tasks == 0:
\* (in_size + num_threads - 1) / num_threads divides by zero, which is
\* undefined.  The build either traps, which ends the process, or yields some
\* quotient and goes on to a for_i over no unit of work.
TrainOnebatchDivideByZero ==
    /\ pc = "batch"
    /\ i < arg.in_size
    /\ BatchSize # 1
    /\ NumThreads(BatchSize, arg.n_threads) = 0
    /\ \/ pc' = "crash" /\ err' = "SIGFPE" /\ UNCHANGED <<task, hist>>
       \/ /\ hist.nBatchCb < MaxSpin
          /\ task' = NoTask
          /\ hist' = NewBatch(hist, BatchSize)
          /\ pc' = "for_i"
          /\ UNCHANGED err
    /\ UNCHANGED <<gc, param, pre, res, op, arg, ins, tgt, iter, i, tsingle, netVars, ret>>

\* lambda of train_onebatch: const auto &t = output_data_function(j, i);
WorkerTarget(w) ==
    /\ pc = "for_i"
    /\ task[w].st = "run" /\ task[w].ph = "t"
    /\ task' = [task EXCEPT ![w].t = task[w].j, ![w].ph = "f", ![w].first = FALSE]
    /\ hist' = SawEvent(hist, Event("t", task[w].j, -1, TaskSlot(w), w))
    /\ UNCHANGED <<gc, param, pre, res, op, pc, arg, ins, tgt, iter, i, tsingle, netVars, ret, err>>

\* lambda of train_onebatch: fprop(input_data_function(j), i)
WorkerFprop(w) ==
    /\ pc = "for_i"
    /\ task[w].st = "run" /\ task[w].ph = "f"
    /\ LET j == task[w].j
           idx == TaskSlot(w)
       IN  IF Mismatch(ins[j])
              THEN /\ task' = [task EXCEPT ![w].st = "failed"]
                   /\ hist' = SawMismatch(hist)
                   /\ UNCHANGED out
              ELSE /\ out' = [out EXCEPT ![idx] = j]
                   /\ task' = [task EXCEPT ![w].ph = "b"]
                   /\ hist' = [SawEvent(SawForward(hist, j, idx), Event("f", j, -1, idx, w))
                                 EXCEPT !.nFprop = @ + 1]
    /\ UNCHANGED <<gc, param, pre, res, op, pc, arg, ins, tgt, iter, i, tsingle, weights, grad, opt,
                   exploded, parallelize, hessian, ret, err>>

\* lambda of train_onebatch: bprop(<output>, t, i); ++j
WorkerBprop(w) ==
    /\ pc = "for_i"
    /\ task[w].st = "run" /\ task[w].ph = "b"
    /\ LET idx == TaskSlot(w)
           c == <<out[idx], task[w].t>>
       IN  /\ grad' = [grad EXCEPT ![idx] = Append(@, c)]
           /\ hist' = [SawEvent(hist, Event("b", task[w].t, out[idx], idx, w))
                         EXCEPT !.trained = @ (+) SetToBag({c})]
    /\ task' = [task EXCEPT ![w].j = @ + 1, ![w].ph = "t",
                            ![w].st = IF task[w].j + 1 < task[w].end THEN "run" ELSE "done"]
    /\ UNCHANGED <<gc, param, pre, res, op, pc, arg, ins, tgt, iter, i, tsingle, weights, opt, exploded,
                   out, parallelize, hessian, ret, err>>

\* for_i: once a unit of work has thrown, units not yet started are not run
WorkerCancel(w) ==
    /\ pc = "for_i"
    /\ task[w].st = "run" /\ task[w].first
    /\ \E v \in DOMAIN task : task[v].st = "failed"
    /\ task' = [task EXCEPT ![w].st = "cancelled"]
    /\ UNCHANGED <<gc, param, pre, res, op, pc, arg, ins, tgt, iter, i, tsingle, netVars, ret, err, hist>>

\* for_i returns (or rethrows) when no unit of work is running any more
ForIReturn ==
    /\ pc = "for_i"
    /\ \A w \in DOMAIN task : task[w].st # "run"
    /\ IF \E w \in DOMAIN task : task[w].st = "failed"
          THEN pc' = "error" /\ err' = "dimension mismatch"
          ELSE pc' = "merge" /\ UNCHANGED err
    /\ UNCHANGED <<gc, param, pre, res, op, arg, ins, tgt, iter, i, task, tsingle, netVars, ret, hist>>

TrainOnebatchUpdate_InsideFanOut ==
    /\ pc \in {"for_i", "merge"}
    /\ UpdateWeights(NumThreads(BatchSize, arg.n_threads), BatchSize)
    /\ pc' = "on_batch"
    /\ UNCHANGED <<gc, param, pre, res, op, arg, ins, tgt, iter, i, task, tsingle, out, parallelize,
                   hessian, ret, err>>

\* train_onebatch: layers_.update_weights(&optimizer_, num_threads, in_size);
TrainOnebatchUpdate ==
    /\ pc = "merge"
    /\ UpdateWeights(NumThreads(BatchSize, arg.n_threads), BatchSize)
    /\ pc' = "on_batch"
    /\ UNCHANGED <<gc, param, pre, res, op, arg, ins, tgt, iter, i, task, tsingle, out, parallelize,
                   hessian, ret, err>>

OnBatchEnumerate_FullBatchOnly ==
    /\ pc = "on_batch"
    /\ hist' = [hist EXCEPT !.nBatchCb = IF BatchSize = arg.batch_size THEN @ + 1 ELSE @]
    /\ task' = NoTask
    /\ pc' = "check"
    /\ UNCHANGED <<gc, param, pre, res, op, arg, ins, tgt, iter, i, tsingle, netVars, ret, err>>

\* train: on_batch_enumerate();
OnBatchEnumerate ==
    /\ pc = "on_batch"
    /\ hist' = [hist EXCEPT !.nBatchCb = @ + 1]
    /\ task' = NoTask
    /\ pc' = "check"
    /\ UNCHANGED <<gc, param, pre, res, op, arg, ins, tgt, iter, i, tsingle, netVars, ret, err>>

\* train: if (i % 100 == 0 && layers_.is_exploded()) return false;  i += batch_size
ExplosionCheck ==
    /\ pc = "check"
    /\ IF ExplosionDetected(i, exploded)
          THEN pc' = "done" /\ ret' = "false" /\ UNCHANGED i
          ELSE pc' = "batch" /\ i' = i + arg.batch_size /\ UNCHANGED ret
    /\ hist' = IF CheckDue(i) THEN SawEvaluation(hist, i) ELSE hist
    /\ UNCHANGED <<gc, param, pre, res, op, arg, ins, tgt, iter, task, tsingle, netVars, err>>

\* train: on_epoch_enumerate(); iter++
OnEpochEnumerate ==
    /\ pc = "batch"
    /\ i >= arg.in_size
    /\ hist' = [hist EXCEPT !.nEpochCb = @ + 1]
    /\ iter' = iter + 1
    /\ pc' = "epoch"
    /\ UNCHANGED <<gc, param, pre, res, op, arg, ins, tgt, i, task, tsingle, netVars, ret, err>>

\* ------------------------------------------------- train, vector overload
CheckT_OffByOne(t, dim_out) ==
    IF t.kind = "label" THEN t.v > dim_out ELSE t.v # dim_out

\* check_t(i, label_t t, dim_out): t >= dim_out throws;
\* check_t(i, const vec_t& t, dim_out): t.size() != dim_out throws
CheckT(t, dim_out) ==
    IF t.kind = "label" THEN t.v >= dim_out ELSE t.v # dim_out

\* check_training_data(in, t) throws
CheckTrainingDataThrows(in, t) ==
    \/ Cardinality(DOMAIN in) # Cardinality(DOMAIN t)
    \/ \E k \in DOMAIN in : in[k] # InDim \/ CheckT(t[k], OutDim)

\* train(in, t, ...): check_training_data(in, t); return train(in.size(), ...)
TrainVector ==
    /\ pc = "train_vector"
    /\ IF CheckTrainingDataThrows(ins, tgt)
          THEN pc' = "error" /\ err' = "nn_error" /\ UNCHANGED arg
          ELSE /\ pc' = "train"
               /\ arg' = [arg EXCEPT !.in_size = Cardinality(DOMAIN ins)]
               /\ UNCHANGED err
    /\ UNCHANGED <<gc, param, pre, res, op, ins, tgt, iter, i, task, tsingle, netVars, ret, hist>>

\* -------------------------------------------------------- evaluation
Tally_Transposed(r, predicted, actual) ==
    [num_success |-> IF predicted = actual THEN r.num_success + 1 ELSE r.num_success,
     num_total |-> r.num_total + 1,
     confusion_matrix |-> r.confusion_matrix (+) SetToBag({<<actual, predicted>>})]

\* result after one iteration of test(in, t)
Tally(r, predicted, actual) ==
    [num_success |-> IF predicted = actual THEN r.num_success + 1 ELSE r.num_success,
     num_total |-> r.num_total + 1,
     confusion_matrix |-> r.confusion_matrix (+) SetToBag({<<predicted, actual>>})]

\* test(in, t): one iteration of the loop over the samples
TestStep ==
    /\ op = "test" /\ pc = "test"
    /\ i < Cardinality(DOMAIN ins)
    /\ IF Mismatch(ins[i])
          THEN /\ pc' = "error" /\ err' = "dimension mismatch"
               /\ hist' = SawMismatch(hist)
               /\ UNCHANGED <<res, i, out>>
          ELSE /\ out' = [out EXCEPT ![0] = i]
               /\ \E predicted \in 0 .. (OutDim - 1) :
                     /\ res' = Tally(res, predicted, tgt[i].v)
                     /\ hist' = [SawForward(hist, i, 0) EXCEPT
                                   !.nFprop = @ + 1,
                                   !.samples = Append(@, <<predicted, tgt[i].v>>)]
               /\ i' = i + 1
               /\ UNCHANGED <<pc, err>>
    /\ UNCHANGED <<gc, param, pre, op, arg, ins, tgt, iter, task, tsingle, weights, grad, opt,
                   exploded, parallelize, hessian, ret>>

\* test(in, t): return test_result;
TestReturn ==
    /\ op = "test" /\ pc = "test"
    /\ i >= Cardinality(DOMAIN ins)
    /\ pc' = "done" /\ ret' = "result"
    /\ UNCHANGED <<gc, param, pre, res, op, arg, ins, tgt, iter, i, task, tsingle, netVars, err, hist>>

\* test(in): for_i(in.size(), [&](int i) { test_result[i] = predict(in[i]); });
TestBatchLaunch ==
    /\ op = "test_batch" /\ pc = "test_batch"
    /\ task' = [w \in DOMAIN ins |-> [st |-> "run", ph |-> "f", first |-> TRUE]]
    /\ res' = [w \in DOMAIN ins |-> -1]
    /\ pc' = "test_for_i"
    /\ UNCHANGED <<gc, param, pre, op, arg, ins, tgt, iter, i, tsingle, netVars, ret, err, hist>>

\* the thread slot predict(in[i]) passes on: fprop(in) with the default idx = 0
PredictSlot(w) == 0

\* predict(in[i]): fprop(in) on the default slot 0
PredictFprop(w) ==
    /\ pc = "test_for_i"
    /\ task[w].st = "run" /\ task[w].ph = "f"
    /\ IF Mismatch(ins[w])
          THEN /\ task' = [task EXCEPT ![w].st = "failed"]
               /\ hist' = SawMismatch(hist)
               /\ UNCHANGED out
          ELSE /\ out' = [out EXCEPT ![PredictSlot(w)] = w]
               /\ task' = [task EXCEPT ![w].ph = "copy", ![w].first = FALSE]
               /\ hist' = [SawForward(hist, w, PredictSlot(w)) EXCEPT !.nFprop = @ + 1]
    /\ UNCHANGED <<gc, param, pre, res, op, pc, arg, ins, tgt, iter, i, tsingle, weights, grad, opt,
                   exploded, parallelize, hessian, ret, err>>

\* test_result[i] = <the vector fprop returned a reference to>
PredictCopy(w) ==
    /\ pc = "test_for_i"
    /\ task[w].st = "run" /\ task[w].ph = "copy"
    /\ res' = [res EXCEPT ![w] = out[PredictSlot(w)]]
    /\ task' = [task EXCEPT ![w].st = "done"]
    /\ UNCHANGED <<gc, param, pre, op, pc, arg, ins, tgt, iter, i, tsingle, netVars, ret, err, hist>>

\* for_i: once a unit of work has thrown, units not yet started are not run
PredictCancel(w) ==
    /\ pc = "test_for_i"
    /\ task[w].st = "run" /\ task[w].first
    /\ \E v \in DOMAIN task : task[v].st = "failed"
    /\ task' = [task EXCEPT ![w].st = "cancelled"]
    /\ UNCHANGED <<gc, param, pre, res, op, pc, arg, ins, tgt, iter, i, tsingle, netVars, ret, err, hist>>

\* test(in): for_i returns or rethrows; return test_result;
TestBatchReturn ==
    /\ pc = "test_for_i"
    /\ \A w \in DOMAIN task : task[w].st # "run"
    /\ IF \E w \in DOMAIN task : task[w].st = "failed"
          THEN pc' = "error" /\ err' = "dimension mismatch" /\ UNCHANGED ret
          ELSE pc' = "done" /\ ret' = "outputs" /\ UNCHANGED err
    /\ task' = NoTask
    /\ UNCHANGED <<gc, param, pre, res, op, arg, ins, tgt, iter, i, tsingle, netVars, hist>>

GetLossStep_Backprop ==
    /\ op = "get_loss" /\ pc = "get_loss"
    /\ i < Cardinality(DOMAIN ins)
    /\ IF Mismatch(ins[i])
          THEN /\ pc' = "error" /\ err' = "dimension mismatch"
               /\ hist' = SawMismatch(hist)
               /\ UNCHANGED <<res, i, out, grad>>
          ELSE /\ out' = [out EXCEPT ![0] = i]
               /\ grad' = [grad EXCEPT ![0] = Append(@, <<i, i>>)]
               /\ res' = Append(res, <<i, i>>)
               /\ hist' = [SawForward(SawForward(hist, i, 0), i, 0) EXCEPT
                             !.nFprop = @ + 2]
               /\ i' = i + 1
               /\ UNCHANGED <<pc, err>>
    /\ UNCHANGED <<gc, param, pre, op, arg, ins, tgt, iter, task, tsingle, weights, opt,
                   exploded, parallelize, hessian, ret>>

\* get_loss(in, t): predicted = predict(in[i]);
\*                  sum_loss += get_loss(predict(in[i]), t[i]);
GetLossStep ==
    /\ op = "get_loss" /\ pc = "get_loss"
    /\ i < Cardinality(DOMAIN ins)
    /\ IF Mismatch(ins[i])
          THEN /\ pc' = "error" /\ err' = "dimension mismatch"
               /\ hist' = SawMismatch(hist)
               /\ UNCHANGED <<res, i, out>>
          ELSE /\ out' = [out EXCEPT ![0] = i]
               /\ res' = Append(res, <<i, i>>)
               /\ hist' = [SawForward(SawForward(hist, i, 0), i, 0) EXCEPT
                             !.nFprop = @ + 2]
               /\ i' = i + 1
               /\ UNCHANGED <<pc, err>>
    /\ UNCHANGED <<gc, param, pre, op, arg, ins, tgt, iter, task, tsingle, weights, grad, opt,
                   exploded, parallelize, hessian, ret>>

\* get_loss(in, t): return sum_loss;
GetLossReturn ==
    /\ op = "get_loss" /\ pc = "get_loss"
    /\ i >= Cardinality(DOMAIN ins)
    /\ pc' = "done" /\ ret' = "loss"
    /\ UNCHANGED <<gc, param, pre, res, op, arg, ins, tgt, iter, i, task, tsingle, netVars, err, hist>>

\* predict(in): return fprop(in);
Predict ==
    /\ op = "predict" /\ pc = "predict"
    /\ IF Mismatch(ins[0])
          THEN /\ pc' = "error" /\ err' = "dimension mismatch"
               /\ hist' = SawMismatch(hist)
               /\ UNCHANGED <<out, ret>>
          ELSE /\ out' = [out EXCEPT ![0] = 0]
               /\ hist' = [SawForward(hist, 0, 0) EXCEPT !.nFprop = @ + 1]
               /\ pc' = "done" /\ ret' = "output"
               /\ UNCHANGED err
    /\ UNCHANGED <<gc, param, pre, res, op, arg, ins, tgt, iter, i, task, tsingle, weights, grad, opt,
                   exploded, parallelize, hessian>>

\* ------------------------------------------- bprop, (label, value) target
Positions == 0 .. (OutDim - 1)

\* canonical link: delta.resize(out_dim(), 0); delta[t.first] = out[t.first] - t.second;
PairDeltaCanonical(o, t) ==
    [k \in Positions |-> IF k = t.first THEN o[t.first] - t.second ELSE 0]

PairTargetVector_TargetOnly(o, t) ==
    [k \in Positions |-> IF k = t.first THEN t.second ELSE 0]

\* general path: vec_t t_vector = out; t_vector[t.first] = t.second;
PairTargetVector(o, t) == [o EXCEPT ![t.first] = t.second]

\* general path: dE_dy = gradient<E>(out, t_vector); for (i < out_dim())
\* delta.push_back(dot(dE_dy, h.df(out, i)));  the entries are kept as terms
PairDeltaGeneral(o, t_vector) ==
    [k \in Positions |-> [dE_dy |-> <<o, t_vector>>, dy_da |-> <<o, k>>]]

\* bprop(out, std::pair<label_t, float_t> t, idx):
\* the delta is built and handed to layers_.tail()->back_propagation(delta, idx)
BpropPair ==
    /\ pc = "bprop_pair"
    /\ LET t_vector == IF arg.canonical THEN << >> ELSE PairTargetVector(arg.out, arg.t)
           delta == IF arg.canonical THEN PairDeltaCanonical(arg.out, arg.t)
                                     ELSE PairDeltaGeneral(arg.out, t_vector)
       IN  /\ res' = [t_vector |-> t_vector,
                      calls |-> Append(res.calls, [delta |-> delta, idx |-> arg.idx])]
           /\ grad' = [grad EXCEPT ![arg.idx] = Append(@, <<arg.out, arg.t>>)]
    /\ pc' = "done"
    /\ UNCHANGED <<gc, param, pre, op, arg, ins, tgt, iter, i, task, tsingle, weights, opt,
                   exploded, out, parallelize, hessian, ret, err, hist>>

\* ------------------------------------------------- get_loss(out, t)
\* the accumulator e is known by the set of positions whose term
\* E::f(out[i], t[i]) it holds
\* float_t e = 0; for_i(out.size(), [&](int i){ e += E::f(out[i], t[i]); });
LossTermsLaunch ==
    /\ pc = "loss_terms"
    /\ res' = [e |-> {}]
    /\ task' = [k \in Positions |-> [st |-> "run", ph |-> "read", tmp |-> {}]]
    /\ pc' = "loss_for_i"
    /\ UNCHANGED <<gc, param, pre, op, arg, ins, tgt, iter, i, tsingle, netVars, ret, err,
                   hist>>

\* e += term, first half: the unit reads the shared accumulator
LossTermRead(k) ==
    /\ pc = "loss_for_i"
    /\ task[k].st = "run" /\ task[k].ph = "read"
    /\ task' = [task EXCEPT ![k].tmp = res.e, ![k].ph = "write"]
    /\ UNCHANGED <<gc, param, pre, res, op, pc, arg, ins, tgt, iter, i, tsingle, netVars,
                   ret, err, hist>>

\* e += term, second half: the unit stores what it read plus its own term
LossTermWrite(k) ==
    /\ pc = "loss_for_i"
    /\ task[k].st = "run" /\ task[k].ph = "write"
    /\ res' = [e |-> task[k].tmp \cup {k}]
    /\ task' = [task EXCEPT ![k].st = "done"]
    /\ UNCHANGED <<gc, param, pre, op, pc, arg, ins, tgt, iter, i, tsingle, netVars, ret,
                   err, hist>>

\* for_i has returned; return e;  (the value returned is res.e)
LossTermsReturn ==
    /\ pc = "loss_for_i"
    /\ \A k \in DOMAIN task : task[k].st = "done"
    /\ ret' = "e"
    /\ pc' = "done"
    /\ UNCHANGED <<gc, param, pre, res, op, arg, ins, tgt, iter, i, task, tsingle, netVars,
                   err, hist>>

\* ------------------------------------------------- has_same_weights
\* a network is known by the sequence of its stages' parameter values;
\* layer_base::has_same_weights(other, eps): the two stages agree within eps
StageHasSameWeights(a, b) == a = b

\* has_same_weights(others, eps): h1 = layers_.head(); h2 = others.layers_.head();
\* while (h1 && h2) { if (!h1->has_same_weights(*h2, eps)) return false;
\*                    h1 = h1->next(); h2 = h2->next(); }  return true;
\* h1 and h2 stand i stages after their heads; past the end of a chain the
\* pointer is null
HasSameWeightsStep ==
    /\ pc = "has_same_weights"
    /\ IF i < Len(arg.this) /\ i < Len(arg.others)
          THEN /\ hist' = [hist EXCEPT !.examined = Append(@, i)]
               /\ IF StageHasSameWeights(arg.this[i + 1], arg.others[i + 1])
                     THEN i' = i + 1 /\ UNCHANGED <<pc, ret>>
                     ELSE pc' = "done" /\ ret' = "false" /\ UNCHANGED i
          ELSE pc' = "done" /\ ret' = "true" /\ UNCHANGED <<i, hist>>
    /\ UNCHANGED <<gc, param, pre, res, op, arg, ins, tgt, iter, task, tsingle, netVars, err>>

\* ---------------------------------------------------------------- Init
FreshHist ==
    [trained |-> EmptyBag, last |-> NoBatch, nFwd |-> 0, nFprop |-> 0,
     lastFwd |-> <<-1, -1>>, fwdBad |-> FALSE, postExpl |-> << >>,
     nBatchCb |-> 0, nEpochCb |-> 0, updRace |-> FALSE, samples |-> << >>,
     nMismatch |-> 0, evalAt |-> << >>, examined |-> << >>, sampled |-> {}]

\* a constructed network on which nothing has run yet
InitNet ==
    /\ weights = [gen |-> 0, upd |-> << >>]
    /\ grad = [s \in Slots |-> << >>]
    /\ opt = [resets |-> 0, steps |-> 0]
    /\ exploded = FALSE
    /\ out = [s \in Slots |-> -1]
    /\ parallelize = TRUE
    /\ hessian = [acc |-> 0, ndiv |-> 0, by |-> 0]
    /\ iter = 0 /\ i = 0 /\ task = NoTask /\ tsingle = -1
    /\ ret = "none" /\ err = "none" /\ res = NoResult
    /\ gc = NoCheck /\ param = << >>
    /\ hist = FreshHist
    /\ pre = [weights |-> weights, grad |-> grad, opt |-> opt, exploded |-> exploded,
              parallelize |-> parallelize, hessian |-> hessian]

\* datasets of n inputs with at most one input of the wrong size
Datasets(n) ==
    {[j \in 0 .. (n - 1) |-> InDim]} \cup
    {[j \in 0 .. (n - 1) |-> IF j = b THEN InDim + 1 ELSE InDim] : b \in 0 .. (n - 1)}

TrainArgs ==
    [in_size : 1 .. MaxInSize, batch_size : 1 .. MaxBatch, epoch : 0 .. MaxEpoch,
     n_threads : 1 .. MaxThreads, reset_weights : BOOLEAN, requires_hessian : BOOLEAN]

\* train(in_size, input_data_function, output_data_function, batch_size, epoch, ...)
InitTrain ==
    /\ op = "train" /\ pc = "train"
    /\ arg \in TrainArgs
    /\ ins \in Datasets(arg.in_size)
    /\ tgt = [j \in 0 .. (arg.in_size - 1) |-> [kind |-> "vec", v |-> OutDim]]
    /\ InitNet

\* a long run of one thread, whose offsets pass the explosion check period
InitLong ==
    /\ op = "train" /\ pc = "train"
    /\ arg \in [in_size : {LongIn}, batch_size : {LongBatch}, epoch : 1 .. MaxEpoch,
                n_threads : {1}, reset_weights : {TRUE}, requires_hessian : {FALSE}]
    /\ ins = [j \in 0 .. (arg.in_size - 1) |-> InDim]
    /\ tgt = [j \in 0 .. (arg.in_size - 1) |-> [kind |-> "vec", v |-> OutDim]]
    /\ InitNet

\* a long run of one epoch in mini-batches of one sample
InitLongSingle ==
    /\ op = "train" /\ pc = "train"
    /\ arg = [in_size |-> LongIn, batch_size |-> 1, epoch |-> 1,
              n_threads |-> 1, reset_weights |-> TRUE, requires_hessian |-> FALSE]
    /\ ins = [j \in 0 .. (arg.in_size - 1) |-> InDim]
    /\ tgt = [j \in 0 .. (arg.in_size - 1) |-> [kind |-> "vec", v |-> OutDim]]
    /\ InitNet

\* a run of one thread over a dataset larger than the cap of the curvature
\* pre-pass
InitLongHessian ==
    /\ op = "train" /\ pc = "train"
    /\ arg = [in_size |-> LongHessian, batch_size |-> LongBatch, epoch |-> 1,
              n_threads |-> 1, reset_weights |-> TRUE, requires_hessian |-> TRUE]
    /\ ins = [j \in 0 .. (arg.in_size - 1) |-> InDim]
    /\ tgt = [j \in 0 .. (arg.in_size - 1) |-> [kind |-> "vec", v |-> OutDim]]
    /\ InitNet

\* vectors of n sizes / n targets, of any size or label
Vectors(n, sizes) == [0 .. (n - 1) -> sizes]
TargetsOf(n, kind, values) == [0 .. (n - 1) -> [kind : {kind}, v : values]]

\* train(in, t, batch_size, epoch, on_batch_enumerate, on_epoch_enumerate, ...)
InitTrainVector ==
    /\ op = "train_vector" /\ pc = "train_vector"
    /\ arg \in [in_size : {-1}, batch_size : 1 .. MaxVecLen, epoch : {1},
                n_threads : 1 .. 2, reset_weights : BOOLEAN, requires_hessian : BOOLEAN]
    /\ \E n \in 0 .. MaxVecLen : ins \in Vectors(n, {InDim, InDim + 1})
    /\ \E n \in 0 .. MaxVecLen :
          \/ tgt \in TargetsOf(n, "label", 0 .. OutDim)
          \/ tgt \in TargetsOf(n, "vec", {OutDim, OutDim + 1})
    /\ InitNet

\* a network that has been trained before the call
UsedNet ==
    /\ weights = [gen |-> 1, upd |-> <<[g |-> <<<<0, 0>>>>, n |-> 1, div |-> 1]>>]
    /\ grad = [s \in Slots |-> IF s = 0 THEN <<<<0, 0>>>> ELSE << >>]
    /\ opt = [resets |-> 1, steps |-> 1]
    /\ exploded = FALSE
    /\ out = [s \in Slots |-> IF s = 0 THEN 0 ELSE -1]
    /\ parallelize = TRUE
    /\ hessian = [acc |-> 0, ndiv |-> 0, by |-> 0]
    /\ iter = 0 /\ i = 0 /\ task = NoTask /\ tsingle = -1
    /\ ret = "none" /\ err = "none"
    /\ gc = NoCheck
    /\ hist = FreshHist
    /\ pre = [weights |-> weights, grad |-> grad, opt |-> opt, exploded |-> exploded,
              parallelize |-> parallelize, hessian |-> hessian]

NoArgs ==
    [in_size |-> -1, batch_size |-> 1, epoch |-> 0, n_threads |-> 1,
     reset_weights |-> FALSE, requires_hessian |-> FALSE]

\* test(in, t) with one label per input
InitTest ==
    /\ op = "test" /\ pc = "test" /\ arg = NoArgs
    /\ \E n \in 0 .. MaxEval :
          /\ ins \in Vectors(n, {InDim, InDim + 1})
          /\ tgt \in TargetsOf(n, "label", 0 .. OutDim)
    /\ res = NoResult
    /\ param = << >>
    /\ UsedNet

\* test(in)
InitTestBatch ==
    /\ op = "test_batch" /\ pc = "test_batch" /\ arg = NoArgs
    /\ \E n \in 0 .. MaxEval :
          /\ ins \in Vectors(n, {InDim, InDim + 1})
          /\ tgt = [j \in 0 .. (n - 1) |-> [kind |-> "vec", v |-> OutDim]]
    /\ res = << >>
    /\ param = << >>
    /\ UsedNet

\* get_loss(in, t)
InitGetLoss ==
    /\ op = "get_loss" /\ pc = "get_loss" /\ arg = NoArgs
    /\ \E n \in 0 .. MaxEval :
          /\ ins \in Vectors(n, {InDim, InDim + 1})
          /\ tgt = [j \in 0 .. (n - 1) |-> [kind |-> "vec", v |-> OutDim]]
    /\ res = << >>
    /\ param = << >>
    /\ UsedNet

\* predict(in)
InitPredict ==
    /\ op = "predict" /\ pc = "predict" /\ arg = NoArgs
    /\ ins \in Vectors(1, {InDim - 1, InDim, InDim + 1})
    /\ tgt = << >>
    /\ res = << >>
    /\ param = << >>
    /\ UsedNet

\* bprop(out, t, idx) with t = (label, value), label < out_dim()
InitBpropPair ==
    /\ op = "bprop_pair" /\ pc = "bprop_pair"
    /\ arg \in [out : [Positions -> 0 .. MaxValue],
                t : [first : Positions, second : 0 .. MaxValue],
                canonical : BOOLEAN, idx : Slots]
    /\ ins = << >> /\ tgt = << >>
    /\ res = [t_vector |-> << >>, calls |-> << >>]
    /\ param = << >>
    /\ UsedNet

\* get_loss(out, t) on an output and a target of out_dim() elements
InitLossTerms ==
    /\ op = "loss_terms" /\ pc = "loss_terms" /\ arg = NoArgs
    /\ ins = << >> /\ tgt = << >>
    /\ res = [e |-> {}]
    /\ param = << >>
    /\ UsedNet

\* chains of up to MaxStages stages, each stage with one of two parameter values
Networks == UNION {[1 .. n -> {0, 1}] : n \in 0 .. MaxStages}

\* this->has_same_weights(others, eps)
InitHasSameWeights ==
    /\ op = "has_same_weights" /\ pc = "has_same_weights"
    /\ arg \in [this : Networks, others : Networks]
    /\ ins = << >> /\ tgt = << >>
    /\ res = << >>
    /\ param = << >>
    /\ UsedNet

Init ==
    \/ InitTrain \/ InitLong \/ InitLongSingle \/ InitLongHessian \/ InitTrainVector
    \/ InitTest \/ InitTestBatch \/ InitGetLoss \/ InitPredict
    \/ InitBpropPair \/ InitLossTerms \/ InitHasSameWeights

Next ==
    \/ TrainInitWeight \/ TrainSetParallelize \/ TrainOptimizerReset
    \/ EpochHead \/ CalcHessianStep \/ CalcHessianDivide
    \/ TrainOnceTarget \/ TrainOnceFprop \/ TrainOnceBprop \/ TrainOnceUpdate
    \/ TrainOnebatchLaunch
    \/ \E w \in DOMAIN task : WorkerTarget(w)
    \/ \E w \in DOMAIN task : WorkerFprop(w)
    \/ \E w \in DOMAIN task : WorkerBprop(w)
    \/ \E w \in DOMAIN task : WorkerCancel(w)
    \/ ForIReturn \/ TrainOnebatchUpdate
    \/ OnBatchEnumerate \/ ExplosionCheck \/ OnEpochEnumerate
    \/ TrainVector
    \/ TestStep \/ TestReturn
    \/ TestBatchLaunch
    \/ \E w \in DOMAIN task : PredictFprop(w)
    \/ \E w \in DOMAIN task : PredictCopy(w)
    \/ \E w \in DOMAIN task : PredictCancel(w)
    \/ TestBatchReturn
    \/ GetLossStep \/ GetLossReturn \/ Predict
    \/ BpropPair
    \/ LossTermsLaunch
    \/ \E k \in DOMAIN task : LossTermRead(k)
    \/ \E k \in DOMAIN task : LossTermWrite(k)
    \/ LossTermsReturn
    \/ HasSameWeightsStep

Spec == Init /\ [][Next]_vars

\* ------------------------------------------------------------ properties
Training == op \in {"train", "train_vector"}
Evaluating == op \in {"test", "test_batch", "get_loss"}

\* the calls train_onebatch(in_offset, in_size, ..., num_tasks) makes, as events
BatchPlan(in_offset, in_size, num_tasks) ==
    LET num_threads == NumThreads(in_size, num_tasks)
        data_per_thread == DataPerThread(in_size, num_threads)
        last_index == in_offset + in_size
        Range(w) ==
            LET start_index == StartIndex(in_offset, w, data_per_thread)
            IN  start_index .. (EndIndex(last_index, start_index, data_per_thread) - 1)
    IN  UNION {UNION {{Event("t", j, -1, TaskSlot(w), w),
                       Event("f", j, -1, TaskSlot(w), w),
                       Event("b", j, j, TaskSlot(w), w)} : j \in Range(w)}
               : w \in 0 .. (num_threads - 1)}

\* an event without the identity of the thread that made the call
Call(e) == [k |-> e.k, j |-> e.j, o |-> e.o, slot |-> e.slot]

Bprops(ev) == {e \in ev : e.k = "b"}

\* C1: in every epoch of train that runs to completion, every dataset index
\* 0 .. in_size-1 is processed exactly once: input_fn(i) is forward-propagated
\* and target_fn(i) is back-propagated against that output, for mini-batches
\* of size 1 and for larger ones.
C1_EveryIndexOnce ==
    (Training /\ pc = "batch" /\ i >= arg.in_size) =>
        hist.trained = SetToBag({<<j, j>> : j \in 0 .. (arg.in_size - 1)})

\* C2: the single-sample path of train_once agrees with train_onebatch on one
\* worker slot: for a mini-batch of one sample at any offset k they forward the
\* same input, back-propagate against the same target on slot 0 and hand the
\* same gradient and the same (slot count, divisor) to update_weights.
C2_SinglePathAgrees ==
    (Training /\ pc = "on_batch" /\ hist.last.size = 1) =>
        LET k == hist.last.off
            u == weights.upd[Len(weights.upd)]
        IN  /\ {Call(e) : e \in hist.last.ev} = {Call(e) : e \in BatchPlan(k, 1, 1)}
            /\ u = [g |-> <<<<k, k>>>>, n |-> NumThreads(1, 1), div |-> 1]

\* the offsets of the mini-batches whose update left the parameters non-finite
ExplodedAt(k) == hist.postExpl[k][2]
CheckPoint(offset) == offset % CheckPeriod = 0

\* C3 (as claimed): once a parameter has become non-finite during an epoch,
\* train returns false and no mini-batch of a later epoch is trained.
C3_NoFurtherEpoch ==
    (Training /\ Len(hist.postExpl) > 0) =>
        /\ hist.last.iter = hist.postExpl[1][1]
        /\ pc = "done" => ret = "false"

\* C3 (amended): parameters that are non-finite when a check point is reached
\* (the mini-batch at an offset i with i % 100 = 0 has been trained and its
\* callback made) make train return false there, with nothing trained and no
\* epoch callback made afterwards; until the next check point training goes
\* on, into the next epoch if the epoch has no later check point, and train
\* returns false only at a check point with non-finite parameters.
C3_StopsAtCheckPoint ==
    Training =>
        LET n == Len(hist.postExpl) IN
        /\ \A k \in 1 .. (n - 1) : ~CheckPoint(ExplodedAt(k))
        /\ (n > 0 /\ CheckPoint(ExplodedAt(n))) =>
              /\ hist.last.iter = hist.postExpl[n][1] /\ hist.last.off = ExplodedAt(n)
              /\ pc \in {"on_batch", "check", "done"}
              /\ pc = "done" => ret = "false"
              /\ hist.nEpochCb = hist.last.iter
        /\ ret = "false" => (n > 0 /\ CheckPoint(ExplodedAt(n)) /\ exploded)

\* C3 witness: non-finite parameters went unnoticed for at least one
\* mini-batch and train returned false at the next check point
C3_Witness == ret = "false" /\ Len(hist.postExpl) >= 2

\* C4, state part: update_weights runs once per mini-batch, after every worker
\* of the fan-out has finished, and no pass is in flight outside the fan-out.
C4_Joined ==
    Training =>
        /\ ~hist.updRace
        /\ pc \in {"on_batch", "check"} => hist.last.upd = 1
        /\ pc = "merge" =>
              /\ \A w \in DOMAIN task : task[w].st = "done"
              /\ {<<e.o, e.j>> : e \in Bprops(hist.last.ev)} =
                    {<<j, j>> : j \in hist.last.off .. (hist.last.off + hist.last.size - 1)}
              /\ hist.last.upd = 0
        /\ pc # "for_i" => \A w \in DOMAIN task : task[w].st # "run"

\* C4, step part: after the set-up the parameters and the optimizer state are
\* written by update_weights only.
C4_SoleWriter ==
    (Training /\ (weights' # weights \/ opt' # opt)) =>
        \/ pc \in {"once_update", "merge"} /\ pc' = "on_batch"
        \/ pc \in {"train", "optimizer_reset"}

\* C4: for every mini-batch of more than one sample update_weights is invoked
\* exactly once, only after every worker of the fan-out has finished; no
\* forward or backward pass is in flight while it runs or starts before it has
\* returned, and it is the only writer of the parameters and the optimizer
\* state after the initial reset.
C4_MergeAfterBarrier == [](C4_Joined) /\ [][C4_SoleWriter]_vars

\* C4 witness: a mini-batch fanned out over several workers has been merged
C4_Witness ==
    /\ pc = "on_batch" /\ hist.last.size > 1 /\ Cardinality(DOMAIN task) > 1
    /\ hist.last.upd = 1

SlotsUsed == {e.slot : e \in Bprops(hist.last.ev)}

\* C5 (as claimed): update_weights gets the number of worker slots that
\* processed at least one sample of the mini-batch, and the number of samples
\* in the mini-batch as the divisor.
C5_SlotsUsed ==
    (Training /\ pc = "on_batch") =>
        /\ hist.last.n = Cardinality(SlotsUsed)
        /\ hist.last.div = hist.last.size

\* C5 (amended): update_weights gets the number of worker slots the mini-batch
\* was fanned out to, min(samples in the mini-batch, n_threads), which is at
\* least the number of slots that processed a sample, and the number of samples
\* in the mini-batch as the divisor; both are 1 for a mini-batch of one sample.
C5_SlotsLaunched ==
    (Training /\ pc = "on_batch") =>
        /\ hist.last.n = Min(hist.last.size, arg.n_threads)
        /\ hist.last.size > 1 => hist.last.n = Cardinality(DOMAIN task)
        /\ Cardinality(SlotsUsed) <= hist.last.n
        /\ hist.last.div = hist.last.size
        /\ hist.last.div = Cardinality(Bprops(hist.last.ev))
        /\ hist.last.size = 1 => (hist.last.n = 1 /\ hist.last.div = 1)

\* C5 witness: a merged mini-batch one of whose worker slots had no sample
C5_Witness ==
    /\ pc = "on_batch" /\ hist.last.size > 1
    /\ Cardinality(SlotsUsed) < hist.last.n

\* C6: in the fan-out of a mini-batch every worker uses its own thread slot,
\* within 0 .. n_threads-1, for the target call, the forward and the backward
\* pass of each of its samples, so that no two workers write the same
\* slot-indexed accumulator or output buffer.
C6_OwnSlot ==
    Training =>
        LET ev == {e \in hist.last.ev : e.w >= 0} IN
        /\ \A e \in ev : e.slot \in 0 .. (arg.n_threads - 1)
        /\ \A e1, e2 \in ev : e1.slot = e2.slot => e1.w = e2.w
        /\ \A e \in Bprops(ev) :
              /\ e.o = e.j
              /\ \E f \in ev : f.k = "f" /\ f.j = e.j /\ f.slot = e.slot
              /\ \E f \in ev : f.k = "t" /\ f.j = e.j /\ f.slot = e.slot
        /\ pc = "merge" =>
              \A s \in Slots : Len(grad[s]) = Cardinality({e \in Bprops(ev) : e.w = s})

\* C6 witness: two workers with a pass in flight at the same time
C6_Witness ==
    /\ pc = "for_i"
    /\ \E v, w \in DOMAIN task :
          v # w /\ task[v].st = "run" /\ task[v].ph = "b"
                /\ task[w].st = "run" /\ task[w].ph = "b"

\* C7, state part: forward_propagation never runs on an input of the wrong
\* size, every fprop call either fails or runs it once, with that input and
\* the given slot, and a failed call is reported as a dimension mismatch.
C7_Checked ==
    /\ ~hist.fwdBad
    /\ hist.nFprop = hist.nFwd + hist.nMismatch
    /\ hist.nFwd > 0 => (hist.lastFwd[1] \in DOMAIN ins /\ ins[hist.lastFwd[1]] = InDim
                         /\ out[hist.lastFwd[2]] = hist.lastFwd[1])
    /\ (hist.nMismatch > 0 /\ task = NoTask) => (pc = "error" /\ err = "dimension mismatch")
    /\ err = "dimension mismatch" => hist.nMismatch > 0

\* C7, step part: a fprop call that fails changes no parameter, accumulator or
\* output buffer.
C7_FailedCallFrame ==
    hist'.nMismatch > hist.nMismatch =>
        /\ UNCHANGED <<weights, grad, opt, out, hessian>>
        /\ hist'.nFwd = hist.nFwd

\* C7: fprop on an input whose size differs from in_dim() fails with a
\* dimension mismatch, with no forward_propagation run and nothing changed;
\* when the size matches, the head's forward_propagation is invoked exactly
\* once with that input and the given slot.
C7_DimensionMismatch == [](C7_Checked) /\ [][C7_FailedCallFrame]_vars

\* C7 witness: a call that failed on a wrong-sized input after forward passes
\* on inputs of the right size
C7_Witness == err = "dimension mismatch" /\ hist.nFwd > 0 /\ hist.nMismatch > 0

\* the conditions under which the vector overload of train must fail
BadTrainingData ==
    \/ Cardinality(DOMAIN ins) # Cardinality(DOMAIN tgt)
    \/ \E k \in DOMAIN ins : ins[k] # InDim
    \/ \E k \in DOMAIN tgt : tgt[k].kind = "label" /\ tgt[k].v >= OutDim
    \/ \E k \in DOMAIN tgt : tgt[k].kind = "vec" /\ tgt[k].v # OutDim

\* C8: the vector overload of train fails fast on mismatching counts, input
\* sizes, target sizes or labels >= out_dim(): it raises an error before the
\* weights are re-initialised, the optimizer is reset, any pass runs or any
\* callback is made; when the checks pass, every label trained is < out_dim().
C8_FailFast ==
    op = "train_vector" =>
        /\ BadTrainingData =>
              /\ pc \in {"train_vector", "error"}
              /\ pc = "error" => err = "nn_error"
              /\ weights = pre.weights /\ opt = pre.opt /\ grad = pre.grad
              /\ hist.nFprop = 0 /\ hist.last = NoBatch
              /\ hist.nBatchCb = 0 /\ hist.nEpochCb = 0
        /\ ~BadTrainingData => pc # "error"
        /\ \A e \in hist.last.ev :
              tgt[e.j].kind = "label" => tgt[e.j].v < OutDim

\* C8 witness: train(in, t, ..., reset_weights = true) has failed on a label
\* equal to out_dim() and the weights are as they were
C8_Witness ==
    /\ op = "train_vector" /\ pc = "error" /\ arg.reset_weights
    /\ \E k \in DOMAIN tgt : tgt[k].kind = "label" /\ tgt[k].v = OutDim
    /\ \A k \in DOMAIN ins : ins[k] = InDim
    /\ Cardinality(DOMAIN ins) = Cardinality(DOMAIN tgt)
    /\ weights = pre.weights

Labels == 0 .. OutDim
Occurrences(s, x) == Cardinality({k \in 1 .. Len(s) : s[k] = x})

\* C9: after each sample test(in, t) has processed, num_total is the number of
\* samples processed, the confusion-matrix cells sum to num_total, cell [p][a]
\* counts the samples predicted p with actual label a, and num_success counts
\* the samples with predicted = actual (the diagonal); the returned result has
\* num_total = number of inputs.
C9_ConfusionMatrix ==
    op = "test" =>
        LET s == hist.samples
            cm == res.confusion_matrix
        IN  /\ res.num_total = Len(s)
            /\ pc # "error" => Len(s) = i
            /\ BagCardinality(cm) = res.num_total
            /\ \A p, a \in Labels : CopiesIn(<<p, a>>, cm) = Occurrences(s, <<p, a>>)
            /\ res.num_success = Cardinality({k \in 1 .. Len(s) : s[k][1] = s[k][2]})
            /\ ret = "result" => res.num_total = Cardinality(DOMAIN ins)

\* C9 witness: a returned result with hits and misses
C9_Witness ==
    /\ op = "test" /\ ret = "result"
    /\ res.num_success >= 1 /\ res.num_success < res.num_total
    /\ \E p, a \in Labels : p # a /\ CopiesIn(<<p, a>>, res.confusion_matrix) >= 1

\* C10: test(in, t), test(in) and get_loss(in, t) leave the weights, every
\* slot's gradient accumulators, the optimizer state and the curvature
\* statistics as they were when called.
C10_ReadOnly ==
    Evaluating =>
        /\ weights = pre.weights
        /\ grad = pre.grad
        /\ opt = pre.opt
        /\ exploded = pre.exploded
        /\ hessian = pre.hessian
        /\ parallelize = pre.parallelize

\* C10 witness: get_loss has returned after forward passes over two samples,
\* on a network with a non-empty accumulator
C10_Witness ==
    /\ op = "get_loss" /\ ret = "loss" /\ Len(res) >= 2
    /\ \E s \in Slots : grad[s] # << >>

\* ------------------------------------------------ C16: split of a mini-batch
Max(a, b) == IF a < b THEN b ELSE a
Ceil(a, b) == CHOOSE q \in 0 .. a : q * b >= a /\ (q - 1) * b < a

\* train_onebatch has launched its units of work and none has started
Launched == pc = "for_i" /\ \A w \in DOMAIN task : task[w].first

\* the range [start_index, end_index) of unit w
RangeOf(w) == {j \in task[w].j .. (task[w].end - 1) : TRUE}

\* the ranges are pairwise disjoint, lie inside the mini-batch, cover it, and
\* none is longer than ceil(s / min(s, n))
RangesPartition ==
    LET s == hist.last.size
        batch == hist.last.off .. (hist.last.off + s - 1)
    IN  /\ \A w \in DOMAIN task : RangeOf(w) \subseteq batch
        /\ \A w, v \in DOMAIN task : w # v => RangeOf(w) \cap RangeOf(v) = {}
        /\ UNION {RangeOf(w) : w \in DOMAIN task} = batch
        /\ \A w \in DOMAIN task :
              Cardinality(RangeOf(w)) <= Ceil(s, Min(s, arg.n_threads))

\* C16 as stated: the ranges train_onebatch assigns to the slots partition
\* [offset, offset + s), none is longer than ceil(s / min(s, n)), and the
\* sizes of any two slots differ by at most one.
C16_EvenSplit ==
    Launched =>
        /\ RangesPartition
        /\ \A w, v \in DOMAIN task :
              Cardinality(RangeOf(w)) - Cardinality(RangeOf(v)) <= 1

\* C16 amended: the ranges partition [offset, offset + s) and slot w gets
\* min(c, max(0, s - w * c)) indices with c = ceil(s / min(s, n)): blocks of
\* c, then a shorter block, then empty ranges, so two sizes can differ by
\* more than one.
C16_BlockSplit ==
    Launched =>
        /\ RangesPartition
        /\ LET s == hist.last.size
               c == Ceil(s, Min(s, arg.n_threads))
           IN  \A w \in DOMAIN task :
                  Cardinality(RangeOf(w)) = Min(c, Max(0, s - w * c))

\* a mini-batch of four samples split over three slots as 2, 2, 0
C16_Witness ==
    /\ Launched
    /\ hist.last.size = 4
    /\ DOMAIN task = 0 .. 2
    /\ RangeOf(2) = {}
    /\ Cardinality(RangeOf(0)) = 2

\* ------------------------------------------------ C17: set-up order of train
SetUpDone == pc \notin {"train_vector", "train", "set_parallelize", "optimizer_reset"}

\* the parameters after the set-up and `steps` weight updates
WeightsAsSetUp ==
    IF arg.reset_weights
       THEN weights.gen = pre.weights.gen + 1 /\ Len(weights.upd) = opt.steps
       ELSE /\ weights.gen = pre.weights.gen
            /\ Len(weights.upd) = Len(pre.weights.upd) + opt.steps
            /\ SubSeq(weights.upd, 1, Len(pre.weights.upd)) = pre.weights.upd

\* C17: train first re-initialises the weights iff reset_weights, then sets
\* the parallelize flag to (batch_size < default task size), then resets the
\* optimizer; the optimizer is reset once per call and never between epochs
\* or mini-batches, and with reset_weights = false no parameter changes
\* before the first update_weights.
C17_SetUpOrder ==
    Training =>
        /\ pc \in {"train_vector", "train"} =>
              /\ weights = pre.weights /\ opt = pre.opt
              /\ parallelize = pre.parallelize
        /\ pc = "set_parallelize" =>
              /\ weights = (IF arg.reset_weights THEN Initialised(pre.weights)
                                                 ELSE pre.weights)
              /\ opt = pre.opt /\ parallelize = pre.parallelize
        /\ pc = "optimizer_reset" =>
              /\ weights = (IF arg.reset_weights THEN Initialised(pre.weights)
                                                 ELSE pre.weights)
              /\ opt = pre.opt
              /\ parallelize = (arg.batch_size < CNN_TASK_SIZE)
        /\ SetUpDone /\ err # "nn_error" =>
              /\ opt.resets = pre.opt.resets + 1
              /\ parallelize = (arg.batch_size < CNN_TASK_SIZE)
              /\ WeightsAsSetUp
              /\ ~arg.reset_weights /\ opt.steps = 0 => weights = pre.weights

\* the second epoch of a call that kept its weights, after two updates
C17_Witness ==
    /\ op = "train" /\ pc = "batch" /\ iter = 1
    /\ ~arg.reset_weights
    /\ opt = [resets |-> 1, steps |-> 2]
    /\ weights.gen = 0

\* ------------------------------------------------ C18: callback protocol
\* mini-batches of one epoch, and mini-batches of this epoch before offset i
BatchesPerEpoch == Ceil(arg.in_size, arg.batch_size)
BatchesBefore == i \div arg.batch_size

\* C18: the batch callback is made once per mini-batch, after that
\* mini-batch's weight update and before the next mini-batch begins, so
\* ceil(in_size / batch_size) times per completed epoch; the epoch callback
\* is made once per completed epoch after its last batch callback; train
\* returns true only after `epoch` epoch callbacks, and when it returns false
\* the aborted epoch has had no epoch callback and nothing follows the
\* failing check.
C18_Callbacks ==
    Training /\ SetUpDone /\ pc # "error" =>
        /\ hist.nEpochCb = iter
        /\ pc \in {"epoch", "calc_hessian"} =>
              hist.nBatchCb = iter * BatchesPerEpoch
        /\ pc \in {"batch", "once_fprop", "once_bprop", "once_update", "for_i",
                   "merge", "on_batch"} =>
              hist.nBatchCb = iter * BatchesPerEpoch + BatchesBefore
        /\ pc \in {"on_batch", "check"} =>
              hist.last.upd = 1 /\ hist.last.off = i /\ hist.last.iter = iter
        /\ pc = "check" =>
              hist.nBatchCb = iter * BatchesPerEpoch + BatchesBefore + 1
        /\ pc = "done" /\ ret = "true" =>
              /\ hist.nEpochCb = arg.epoch
              /\ hist.nBatchCb = arg.epoch * BatchesPerEpoch
        /\ pc = "done" /\ ret = "false" =>
              /\ hist.nEpochCb < arg.epoch
              /\ hist.nBatchCb = iter * BatchesPerEpoch + BatchesBefore + 1
              /\ hist.last.upd = 1 /\ hist.last.off = i /\ hist.last.iter = iter

\* train returns false from the first check of its second epoch: one epoch callback, and the batch callbacks of one epoch plus one
C18_Witness ==
    /\ op = "train" /\ pc = "done" /\ ret = "false"
    /\ arg.epoch = 2 /\ iter = 1 /\ i = 0
    /\ arg.in_size = 3 /\ arg.batch_size = 2
    /\ hist.nEpochCb = 1 /\ hist.nBatchCb = 3

\* ------------------------------------------------ C19: curvature pre-pass
InBatchLoop ==
    pc \in {"batch", "once_fprop", "once_bprop", "once_update", "for_i", "merge",
            "on_batch", "check"}

\* C19: the pre-pass runs at the start of each epoch iff requires_hessian();
\* it processes the indices 0 .. min(in_size, 500) - 1, each with one forward
\* and one second-order backward pass, then calls divide_hessian once with
\* the number of samples processed; when requires_hessian() is false there
\* is no bprop_2nd and no divide_hessian.
C19_PrePass ==
    Training /\ SetUpDone /\ pc # "error" =>
        LET size == Min(arg.in_size, HessianCap) IN
        IF ~arg.requires_hessian
           THEN hessian = pre.hessian /\ pc # "calc_hessian"
           ELSE /\ pc = "epoch" =>
                    hessian.ndiv = iter /\ hessian.acc = iter * size
                /\ pc = "calc_hessian" =>
                    /\ hessian.ndiv = iter /\ hessian.acc = iter * size + i
                    /\ i <= size
                    /\ i > 0 => out[0] = i - 1 /\ hist.lastFwd = <<i - 1, 0>>
                /\ InBatchLoop \/ (pc = "done" /\ ret = "false") =>
                    /\ hessian.ndiv = iter + 1 /\ hessian.by = size
                    /\ hessian.acc = (iter + 1) * size
                /\ pc = "done" /\ ret = "true" =>
                    /\ hessian.ndiv = arg.epoch
                    /\ hessian.acc = arg.epoch * size
                    /\ arg.epoch > 0 => hessian.by = size

\* the pre-pass over a dataset of more than 500 samples has processed 500
\* of them and has been divided by 500
C19_Witness ==
    /\ op = "train" /\ arg.requires_hessian
    /\ arg.in_size > HessianCap
    /\ pc = "batch" /\ iter = 0 /\ i = 0
    /\ hessian = [acc |-> HessianCap, ndiv |-> 1, by |-> HessianCap]

\* ------------------------------------------------ C20: period of the check
\* mini-batches of this epoch whose explosion check has run
BatchesChecked ==
    IF pc = "done" /\ ret = "false" THEN BatchesBefore + 1 ELSE BatchesBefore

EvaluatedAt == {hist.evalAt[k] : k \in DOMAIN hist.evalAt}

\* C20 as stated: is_exploded() is evaluated after every 100th mini-batch and
\* not in between, so that 100 mini-batches lie between two consecutive
\* evaluations whatever batch_size is.
C20_EveryHundredth ==
    Training /\ SetUpDone /\ pc # "error" =>
        \A k \in DOMAIN hist.evalAt :
            k > 1 => hist.evalAt[k] - hist.evalAt[k - 1] = CheckPeriod * arg.batch_size

\* C20 amended: is_exploded() is evaluated after exactly those mini-batches
\* whose offset b * batch_size is a multiple of 100, in order and once each.
C20_OffsetMultiple ==
    Training /\ SetUpDone /\ pc \notin {"error", "epoch", "calc_hessian"} =>
        /\ EvaluatedAt = {b * arg.batch_size : b \in
                             {c \in 0 .. (BatchesChecked - 1) :
                                 (c * arg.batch_size) % CheckPeriod = 0}}
        /\ \A k \in DOMAIN hist.evalAt :
              k > 1 => hist.evalAt[k] > hist.evalAt[k - 1]

\* with batch_size = 50 the check has run after the first and after the
\* third mini-batch of the epoch
C20_Witness ==
    /\ op = "train" /\ arg.batch_size = LongBatch
    /\ pc = "batch" /\ i >= arg.in_size
    /\ hist.evalAt = <<0, 2 * LongBatch>>

\* ------------------------------------------------------- gradient_check
\* the parameters of a chain: <<stage, "w" or "b", index>>, stage 1 is the head
SizeOf(chain, s, part) == IF part = "w" THEN chain[s].nw ELSE chain[s].nb
Params(chain) ==
    {<<s, part, k>> \in (DOMAIN chain) \X {"w", "b"} \X (0 .. 2) :
        k < SizeOf(chain, s, part)}

\* the parameter calc_delta is working on: w[check_index] of the current stage
Checked == <<gc.cur, gc.part, gc.idx>>

\* gradient_check: label2vector(t, data_size, &v); auto current = layers_.head();
GradientCheckEnter ==
    /\ pc = "gradient_check"
    /\ gc' = [NoCheck EXCEPT !.cur = 1]
    /\ pc' = "gc_next"
    /\ UNCHANGED <<param, pre, res, op, arg, ins, tgt, iter, i, task, tsingle, netVars,
                   ret, err, hist>>

\* while ((current = current->next()) != 0) { if (w.empty()) continue;
\* switch (mode) { ... default: throw nn_error("unknown grad-check type"); } }
\* return true;
GradientCheckAdvance ==
    /\ pc = "gc_next"
    /\ LET nxt == gc.cur + 1 IN
       IF nxt > Len(arg.chain)
          THEN pc' = "done" /\ ret' = "true" /\ UNCHANGED <<gc, err>>
          ELSE /\ gc' = [gc EXCEPT !.cur = nxt, !.part = "w", !.k = 0]
               /\ IF arg.chain[nxt].nw = 0
                     THEN UNCHANGED <<pc, ret, err>>
                     ELSE IF arg.mode \in {"GRAD_CHECK_ALL", "GRAD_CHECK_RANDOM"}
                             THEN pc' = "gc_loop" /\ UNCHANGED <<ret, err>>
                             ELSE pc' = "error" /\ err' = "nn_error" /\ UNCHANGED ret
    /\ UNCHANGED <<param, pre, res, op, arg, ins, tgt, iter, i, task, tsingle, netVars,
                   hist>>

\* case GRAD_CHECK_ALL: for (i < w.size()) calc_delta(.., w, dw, i);
\*                      for (i < b.size()) calc_delta(.., b, db, i); break;
\* case GRAD_CHECK_RANDOM: for (i < 10) calc_delta(.., w, dw, uniform_idx(w));
\*                         for (i < 10) calc_delta(.., b, db, uniform_idx(b)); break;
GradientCheckLoop ==
    /\ pc = "gc_loop"
    /\ LET size == SizeOf(arg.chain, gc.cur, gc.part)
           all == arg.mode = "GRAD_CHECK_ALL"
       IN  IF gc.k < (IF all THEN size ELSE RandomChecks)
              THEN /\ \E check_index \in (IF all THEN {gc.k} ELSE 0 .. (size - 1)) :
                         gc' = [gc EXCEPT !.idx = check_index]
                   /\ pc' = "calc_delta"
              ELSE IF gc.part = "w"
                      THEN gc' = [gc EXCEPT !.part = "b", !.k = 0] /\ UNCHANGED pc
                      ELSE pc' = "gc_next" /\ UNCHANGED gc
    /\ UNCHANGED <<param, pre, res, op, arg, ins, tgt, iter, i, task, tsingle, netVars,
                   ret, err, hist>>

\* calc_delta: static const float_t delta = 1e-10;  the step by which a
\* parameter is perturbed, whatever eps the caller passed; steps and
\* tolerances are powers of ten, known by their exponent
PerturbationStep(eps) == DeltaExponent

\* calc_delta: std::fill(dw, 0); prev_w = w[check_index];
\*             w[check_index] = prev_w + delta;
\* param counts the steps a parameter is away from its value, gc.step is the step
CalcDeltaPlus ==
    /\ pc = "calc_delta"
    /\ gc' = [gc EXCEPT !.dw = 0, !.prev_w = param[Checked], !.f_p = NoLoss,
                        !.f_m = NoLoss, !.step = PerturbationStep(arg.eps), !.by = -1]
    /\ param' = [param EXCEPT ![Checked] = param[Checked] + 1]
    /\ pc' = "f_p"
    /\ UNCHANGED <<pre, res, op, arg, ins, tgt, iter, i, task, tsingle, netVars,
                   ret, err, hist>>

\* what for_i(data_size, [&](int i){ f += get_loss(fprop(in[i]), v[i]); }) does
\* when run in index order: the loss summed at the current parameters, or the
\* data_mismatch of the first input of the wrong size
LossPass(field, then) ==
    LET bad == {j \in DOMAIN ins : Mismatch(ins[j])}
        n == arg.data_size
    IN  IF bad # {}
           THEN /\ pc' = "error" /\ err' = "dimension mismatch"
                /\ hist' = SawMismatch(hist)
                /\ UNCHANGED <<gc, out>>
           ELSE /\ gc' = [gc EXCEPT ![field] = [at |-> param[Checked], n |-> n]]
                /\ out' = [out EXCEPT ![0] = n - 1]
                /\ hist' = [hist EXCEPT !.nFwd = @ + n, !.nFprop = @ + n,
                                        !.lastFwd = <<n - 1, 0>>]
                /\ pc' = then
                /\ UNCHANGED err

\* calc_delta: for_i(data_size, [&](int i){ f_p += get_loss(fprop(in[i]), v[i]); });
CalcDeltaLossPlus ==
    /\ pc = "f_p"
    /\ LossPass("f_p", "minus")
    /\ UNCHANGED <<param, pre, res, op, arg, ins, tgt, iter, i, task, tsingle, weights,
                   grad, opt, exploded, parallelize, hessian, ret>>

\* calc_delta: w[check_index] = prev_w - delta;
CalcDeltaMinus ==
    /\ pc = "minus"
    /\ param' = [param EXCEPT ![Checked] = gc.prev_w - 1]
    /\ pc' = "f_m"
    /\ UNCHANGED <<gc, pre, res, op, arg, ins, tgt, iter, i, task, tsingle, netVars,
                   ret, err, hist>>

\* calc_delta: for_i(data_size, [&](int i){ f_m += get_loss(fprop(in[i]), v[i]); });
CalcDeltaLossMinus ==
    /\ pc = "f_m"
    /\ LossPass("f_m", "restore")
    /\ UNCHANGED <<param, pre, res, op, arg, ins, tgt, iter, i, task, tsingle, weights,
                   grad, opt, exploded, parallelize, hessian, ret>>

CalcDeltaRestore_Skipped ==
    /\ pc = "restore"
    /\ pc' = "bprop"
    /\ UNCHANGED <<gc, param, pre, res, op, arg, ins, tgt, iter, i, task, tsingle, netVars,
                   ret, err, hist>>

\* calc_delta: delta_by_numerical = (f_p - f_m) / (2 * delta); w[check_index] = prev_w;
CalcDeltaRestore ==
    /\ pc = "restore"
    /\ gc' = [gc EXCEPT !.by = PerturbationStep(arg.eps)]
    /\ param' = [param EXCEPT ![Checked] = gc.prev_w]
    /\ pc' = "bprop"
    /\ UNCHANGED <<pre, res, op, arg, ins, tgt, iter, i, task, tsingle, netVars,
                   ret, err, hist>>

\* calc_delta: for_i(data_size, [&](int i){ bprop(fprop(in[i]), v[i]); });
CalcDeltaBprop ==
    /\ pc = "bprop"
    /\ LET n == arg.data_size IN
       /\ grad' = [grad EXCEPT ![0] = @ \o [j \in 1 .. n |-> <<j - 1, j - 1>>]]
       /\ gc' = [gc EXCEPT !.dw = n]
       /\ out' = [out EXCEPT ![0] = n - 1]
       /\ hist' = [hist EXCEPT !.nFwd = @ + n, !.nFprop = @ + n,
                               !.lastFwd = <<n - 1, 0>>]
    /\ pc' = "compare"
    /\ UNCHANGED <<param, pre, res, op, arg, ins, tgt, iter, i, task, tsingle, weights,
                   opt, exploded, parallelize, hessian, ret, err>>

\* calc_delta: return std::abs(delta_by_bprop - delta_by_numerical);
\* gradient_check: if (calc_delta(...) > eps) return false;
CalcDeltaReturn ==
    /\ pc = "compare"
    /\ LET exceeds == Checked \in arg.wrong IN
       /\ hist' = IF arg.mode = "GRAD_CHECK_ALL"
                     THEN [hist EXCEPT !.examined = Append(@, Checked)]
                     ELSE [hist EXCEPT !.sampled = @ \cup {Checked}]
       /\ IF exceeds
             THEN pc' = "done" /\ ret' = "false" /\ UNCHANGED gc
             ELSE pc' = "gc_loop" /\ gc' = [gc EXCEPT !.k = @ + 1] /\ UNCHANGED ret
    /\ UNCHANGED <<param, pre, res, op, arg, ins, tgt, iter, i, task, tsingle, netVars,
                   err>>

\* chains of up to MaxDepth stages; a stage has no parameters, weights only,
\* biases only, or both
Shapes == {[nw |-> 0, nb |-> 0], [nw |-> 1, nb |-> 0], [nw |-> 0, nb |-> 1],
           [nw |-> 2, nb |-> 1]}
Heads == {[nw |-> 0, nb |-> 0], [nw |-> 2, nb |-> 1]}
Chains(shapes) ==
    UNION {{c \in [1 .. d -> shapes \cup Heads] :
              c[1] \in Heads /\ \A s \in 2 .. d : c[s] \in shapes} : d \in 1 .. MaxDepth}

\* at most two parameters whose analytic gradient is off by more than eps
Wrong(chain) == {w \in SUBSET Params(chain) : Cardinality(w) <= 2}

CheckArgs(chain, wrong, mode, data_size, eps) ==
    [chain |-> chain, wrong |-> wrong, mode |-> mode, data_size |-> data_size,
     eps |-> eps]

\* the tolerances eps a caller passes: 1e-3 and 1e-10
EpsExponents == {3, DeltaExponent}

\* gradient_check(in, t, data_size, eps, mode) on a trained network
InitGradientCheck ==
    /\ op = "gradient_check" /\ pc = "gradient_check"
    /\ \E eps \in EpsExponents :
       \/ \E c \in Chains(Shapes) : \E w \in Wrong(c) :
             /\ arg = CheckArgs(c, w, "GRAD_CHECK_ALL", 1, eps)
             /\ ins = [j \in {0} |-> InDim]
       \/ \E c \in Chains(Shapes) :
             /\ arg = CheckArgs(c, {}, "unknown", 1, eps)
             /\ ins = [j \in {0} |-> InDim]
       \/ \E s \in Shapes \ {[nw |-> 1, nb |-> 0]} :
          \E w \in {{}, {<<2, "w", 1>>}, {<<2, "b", 0>>}} :
             /\ arg = CheckArgs(<<[nw |-> 2, nb |-> 1], s>>, w, "GRAD_CHECK_RANDOM", 1,
                              eps)
             /\ ins = [j \in {0} |-> InDim]
       \/ \E n \in 1 .. MaxData :
             /\ arg = CheckArgs(<<[nw |-> 2, nb |-> 1], [nw |-> 2, nb |-> 1]>>, {},
                                "GRAD_CHECK_ALL", n, eps)
             /\ ins \in Datasets(n)
    /\ tgt = [j \in DOMAIN ins |-> [kind |-> "label", v |-> 0]]
    /\ param = [p \in Params(arg.chain) |-> 0]
    /\ res = << >>
    /\ UsedNet

NextGradientCheck ==
    \/ GradientCheckEnter \/ GradientCheckAdvance \/ GradientCheckLoop
    \/ CalcDeltaPlus \/ CalcDeltaLossPlus \/ CalcDeltaMinus \/ CalcDeltaLossMinus
    \/ CalcDeltaRestore \/ CalcDeltaBprop \/ CalcDeltaReturn

SpecGradientCheck == InitGradientCheck /\ [][NextGradientCheck]_vars

\* ------------------------------------------------ C11, C12, C13: gradient_check
\* the parameters of stage s, weights first, in index order
RECURSIVE Indices(_, _, _)
Indices(s, part, n) ==
    IF n = 0 THEN << >> ELSE Append(Indices(s, part, n - 1), <<s, part, n - 1>>)
StageOrder(chain, s) ==
    Indices(s, "w", chain[s].nw) \o Indices(s, "b", chain[s].nb)

\* the parameters of the stages after the head, in chain order
RECURSIVE ChainOrder(_, _)
ChainOrder(chain, s) ==
    IF s <= 1 THEN << >> ELSE ChainOrder(chain, s - 1) \o StageOrder(chain, s)

IsPrefix(a, b) == Len(a) <= Len(b) /\ a = SubSeq(b, 1, Len(a))
Returned == pc = "done"

\* C11: under GRAD_CHECK_ALL gradient_check examines every weight and every
\* bias of every stage after the head, in chain order; it returns false at
\* the first examined parameter that exceeds the tolerance and examines no
\* later one; it returns true exactly when no parameter of a stage after the
\* head exceeds the tolerance; the head's parameters are never examined.
C11_ExaminesAll ==
    op = "gradient_check" /\ arg.mode = "GRAD_CHECK_ALL" =>
        LET order == ChainOrder(arg.chain, Len(arg.chain))
            seen == hist.examined
        IN  /\ IsPrefix(seen, order)
            /\ \A k \in DOMAIN seen :
                  /\ seen[k][1] # 1
                  /\ k < Len(seen) => seen[k] \notin arg.wrong
            /\ Returned /\ ret = "false" =>
                  seen # << >> /\ seen[Len(seen)] \in arg.wrong
            /\ Returned =>
                  (ret = "true" <=> \A k \in DOMAIN order : order[k] \notin arg.wrong)
            /\ Returned /\ ret = "true" => seen = order

\* C12: gradient_check leaves every parameter as it found it on every return
\* path; inside calc_delta the perturbed parameter is restored before the
\* analytic pass, and at most one parameter is perturbed at any time.
C12_Restored ==
    op = "gradient_check" =>
        LET perturbed == {p \in DOMAIN param : param[p] # 0} IN
        /\ Cardinality(perturbed) <= 1
        /\ perturbed \subseteq {Checked}
        /\ perturbed # {} => pc \in {"f_p", "minus", "f_m", "restore", "error"}
        /\ pc \in {"bprop", "compare"} => perturbed = {} /\ gc.dw <= arg.data_size
        /\ Returned => perturbed = {}

\* gradient_check returns false at the third parameter it examined, with
\* every parameter back at its value
C12_Witness ==
    /\ op = "gradient_check" /\ Returned /\ ret = "false"
    /\ Len(hist.examined) = 3
    /\ \A p \in DOMAIN param : param[p] = 0

\* C13: with an unrecognized mode gradient_check fails with nn_error for
\* every non-empty chain, whatever its stages; it never returns true or false.
C13_UnknownModeFails ==
    op = "gradient_check" /\ arg.mode = "unknown" => ~Returned

\* ------------------------------------------------ C14: (label, value) target
\* C14: bprop with a (label, value) target, label < out_dim, supervises one
\* output position: on the canonical-link path the delta is out[label] - value
\* at label and 0 elsewhere; on the general path the target vector equals the
\* predicted output except at label, where it is value; either way the delta
\* has out_dim entries and is handed to the tail stage once, with the
\* caller's slot.
C14_PairTarget ==
    op = "bprop_pair" /\ pc = "done" =>
        /\ Len(res.calls) = 1
        /\ LET delta == res.calls[1].delta
               label == arg.t.first
               value == arg.t.second
           IN  /\ res.calls[1].idx = arg.idx
               /\ DOMAIN delta = 0 .. (OutDim - 1)
               /\ arg.canonical =>
                     \A k \in DOMAIN delta :
                         delta[k] = IF k = label THEN arg.out[label] - value ELSE 0
               /\ ~arg.canonical =>
                     /\ DOMAIN res.t_vector = 0 .. (OutDim - 1)
                     /\ \A k \in DOMAIN res.t_vector :
                           res.t_vector[k] = IF k = label THEN value ELSE arg.out[k]
                     /\ \A k \in DOMAIN delta :
                           delta[k] = [dE_dy |-> <<arg.out, res.t_vector>>,
                                       dy_da |-> <<arg.out, k>>]

\* the general path has run on an output that differs from the target at
\* the label and is non-zero elsewhere
C14_Witness ==
    /\ op = "bprop_pair" /\ pc = "done" /\ ~arg.canonical
    /\ arg.t = [first |-> 0, second |-> 2]
    /\ arg.out[0] = 1 /\ arg.out[1] = 1
    /\ res.t_vector[0] = 2 /\ res.t_vector[1] = 1
    /\ arg.idx = 1

\* ------------------------------------------------ C15: loss accumulation
\* C15: loss terms accumulated by units of work that may run in parallel are
\* summed without loss: for every interleaving the value get_loss(out, t)
\* returns holds the term of every position.
C15_NoLostUpdate ==
    op = "loss_terms" /\ pc = "done" /\ ret = "e" => res.e = 0 .. (OutDim - 1)

\* ------------------------------------------------ C21: the perturbation step
InCalcDelta == pc \in {"f_p", "minus", "f_m", "restore", "bprop", "compare"}

\* C21: the eps argument of gradient_check is the perturbation step: the
\* checked parameter is set to its value + eps and to its value - eps, and
\* the numerical estimate divides f_p - f_m by twice that same eps.
C21_EpsilonIsStep ==
    op = "gradient_check" /\ InCalcDelta =>
        /\ gc.step = arg.eps
        /\ pc = "f_p" => param[Checked] = gc.prev_w + 1
        /\ pc = "f_m" => param[Checked] = gc.prev_w - 1
        /\ pc \in {"bprop", "compare"} => gc.by = arg.eps

\* ------------------------------------------------ C22: slots outside training
\* units of test(in) that hold the output buffer of their slot: forwarded,
\* result not yet copied
HoldsOutput(w) == task[w].st = "run" /\ task[w].ph = "copy"

\* C22: two passes that test(in) may run concurrently use different thread
\* slots, so neither reads or writes the other's per-slot output: every
\* unit copies the output of its own input.
C22_DistinctSlots ==
    op = "test_batch" =>
        /\ pc = "test_for_i" =>
              \A w, v \in DOMAIN task :
                  w # v /\ task[w].st = "run" /\ task[v].st = "run" =>
                      PredictSlot(w) # PredictSlot(v)
        /\ pc = "test_for_i" =>
              \A w \in DOMAIN task : HoldsOutput(w) => out[PredictSlot(w)] = w
        /\ pc = "done" => \A w \in DOMAIN res : res[w] = w

\* ------------------------------------------- train with zero arguments
\* train(in_size, ..., batch_size, epoch, ..., n_threads) with batch_size and
\* n_threads from 0 upwards
InitTrainZero ==
    /\ op = "train" /\ pc = "train"
    /\ arg \in [in_size : 1 .. 2, batch_size : 0 .. 2, epoch : {1},
                n_threads : 0 .. 2, reset_weights : {TRUE}, requires_hessian : BOOLEAN]
    /\ ins \in Datasets(arg.in_size)
    /\ tgt = [j \in 0 .. (arg.in_size - 1) |-> [kind |-> "vec", v |-> OutDim]]
    /\ InitNet

NextTrainZero ==
    \/ TrainInitWeight \/ TrainSetParallelize \/ TrainOptimizerReset
    \/ EpochHead \/ CalcHessianStep \/ CalcHessianDivide
    \/ TrainOnceTarget \/ TrainOnceFprop \/ TrainOnceBprop \/ TrainOnceUpdate
    \/ TrainOnebatchLaunch \/ TrainOnebatchDivideByZero
    \/ \E w \in DOMAIN task : WorkerTarget(w)
    \/ \E w \in DOMAIN task : WorkerFprop(w)
    \/ \E w \in DOMAIN task : WorkerBprop(w)
    \/ \E w \in DOMAIN task : WorkerCancel(w)
    \/ ForIReturn \/ TrainOnebatchUpdate
    \/ OnBatchEnumerate \/ ExplosionCheck \/ OnEpochEnumerate

SpecTrainZero == InitTrainZero /\ [][NextTrainZero]_vars

\* ------------------------------------------------ C23: termination of train
ZeroArgument == arg.batch_size = 0 \/ arg.n_threads = 0

\* C23: train terminates for every batch_size and thread count, 0 included:
\* with batch_size >= 1 and n_threads >= 1 it trains at most
\* epoch * ceil(in_size / batch_size) mini-batches, and a zero batch_size or
\* thread count is rejected before the batch loop is entered: no division by
\* zero, no loop that does not advance.
C23_ZeroRejected ==
    op = "train" =>
        /\ pc # "crash"
        /\ ZeroArgument => ~InBatchLoop
        /\ ~ZeroArgument /\ SetUpDone /\ pc # "error" =>
              hist.nBatchCb <= arg.epoch * BatchesPerEpoch

\* ---------------------------------------------------------------- C24
\* the stages of both chains agree pairwise over positions 1 .. n
PairsAgree(n) ==
    \A k \in 1 .. n : StageHasSameWeights(arg.this[k], arg.others[k])

\* the first position at which the two chains differ, 0 when they agree over
\* the stages both have
FirstDifference ==
    LET common == Min(Len(arg.this), Len(arg.others))
        diff == {k \in 1 .. common : ~StageHasSameWeights(arg.this[k], arg.others[k])}
    IN IF diff = {} THEN 0 ELSE CHOOSE k \in diff : \A m \in diff : k <= m

\* C24: has_same_weights returns true if and only if both networks have the
\* same number of stages and every stage of this network agrees, within eps,
\* with the stage at the same position of the other network; stages are
\* visited head to tail, the first differing pair ends the visit with false,
\* and neither network is changed.
C24_SameWeights ==
    op = "has_same_weights" /\ pc = "done" =>
        /\ ret = "true" <=> /\ Len(arg.this) = Len(arg.others)
                            /\ PairsAgree(Len(arg.this))
        /\ ret = "false" => /\ FirstDifference # 0
                            /\ hist.examined = [k \in 1 .. FirstDifference |-> k - 1]
        /\ weights = pre.weights

====
